---- MODULE Spec2Model ----
(***************************************************************************)
(* A model of iata-scraper (src/iata-scraper/src/main.rs): the sequential  *)
(* scrape of the airline-code pages, the normalized CSV writer, the code   *)
(* collector and the logo downloader bounded by buffer_unordered(12).      *)
(* The whole run follows the tasks of the downloader by code; for code     *)
(* sets larger than the buffer they are followed by number (pool).         *)
(*                                                                         *)
(* Text is a sequence of characters; a character is a one-element token    *)
(* ("a", "A", "sp", "sharp_s", ...), so that trim, to_uppercase, len and   *)
(* eq_ignore_ascii_case are computed character by character.               *)
(***************************************************************************)
EXTENDS Integers, Sequences, FiniteSets, TLC

VARIABLES
    pc,          \* position of main: start, scrape, fetching, write, collect, download,
                 \* done, failed
    exit,        \* result of main: "running", "ok" or the context of the fatal error
    idx,         \* scrape_all: index in suffixes of the current document
    header,      \* scrape_all: Option<Vec<String>>, None or Some(h)
    rows_all,    \* scrape_all: the accumulated data rows
    results,     \* per document, in order, what fetch_iata_table returned
    docGets,     \* per document, the number of GET requests issued
    csv,         \* the file at CSV_PATH: NoFile or its records
    unique,      \* download_logos: the HashSet of codes
    tasks,       \* download_logos: the codes the task iterator has not yielded yet
    inflight,    \* codes whose future is in the buffer, request unresolved
    outcome,     \* code -> what its task reported (ok / skip / err)
    logoGets,    \* code -> the number of GET requests issued
    received,    \* code -> the response and disk behaviour its download met
    files,       \* the files of OUT_DIR: file name -> bytes
    served,      \* per code, the (response, disk) pairs the network and disk can produce
    web,         \* per document, the responses its host can give
    run,         \* how many times main has been started
    queued,      \* the tasks pulled into the buffer and not yet polled, oldest first
    pool,        \* download_logos followed by number: how many tasks are at each place
    datasets     \* the dataset files written in full so far, one per run that wrote one

vars == <<pc, exit, idx, header, rows_all, results, docGets, csv, unique, tasks,
          inflight, outcome, logoGets, received, files, served, web, run, queued, pool,
          datasets>>

----------------------------------------------------------------------------
(* Bounds of the model *)

\* Number of document suffixes modelled (a prefix of the 27 of main).
NumDocs == 3

\* Largest code set of the download-only specification.
MaxCodes == 15

\* Largest number of tables in a document enumerated for the table selection.
MaxTables == 3

\* Largest number of bytes a failing disk takes of the dataset file.
MaxCsvBytes == 12

\* Number of times main is started in the specification of repeated runs.
MaxRuns == 3

\* Longest marker value enumerated for the code collector.
MaxValLen == 3

\* Most data rows of an enumerated dataset.
MaxRows == 2

\* Longest raw row enumerated for the writer.
MaxRowLen == 5

----------------------------------------------------------------------------
(* Characters and strings *)

\* char::is_whitespace, as used by str::trim and split_whitespace
IsWhitespace(c) == c \in {"sp", "tab", "nbsp"}

\* char::is_ascii_alphanumeric
IsAsciiAlphanumeric(c) ==
    c \in {"a", "b", "i", "t", "s", "x", "A", "B", "I", "T", "S", "X", "1", "2"}

\* char::len_utf8 : str::len counts bytes
LenUtf8(c) == IF c \in {"e_acute", "E_ACUTE", "sharp_s", "nbsp"} THEN 2 ELSE 1

\* char::to_uppercase (one character may become several: sharp s -> SS)
CharToUppercase(c) ==
    CASE c = "a" -> <<"A">>
      [] c = "b" -> <<"B">>
      [] c = "i" -> <<"I">>
      [] c = "t" -> <<"T">>
      [] c = "s" -> <<"S">>
      [] c = "x" -> <<"X">>
      [] c = "e_acute" -> <<"E_ACUTE">>
      [] c = "sharp_s" -> <<"S", "S">>
      [] OTHER -> <<c>>

\* u8::to_ascii_lowercase : only A-Z change
ToAsciiLowercase(c) ==
    CASE c = "A" -> "a"
      [] c = "B" -> "b"
      [] c = "I" -> "i"
      [] c = "T" -> "t"
      [] c = "S" -> "s"
      [] c = "X" -> "x"
      [] OTHER -> c

RECURSIVE ToUppercase(_)
ToUppercase(s) ==
    IF s = <<>> THEN <<>> ELSE CharToUppercase(Head(s)) \o ToUppercase(Tail(s))

RECURSIVE StrLen(_)
StrLen(s) == IF s = <<>> THEN 0 ELSE LenUtf8(Head(s)) + StrLen(Tail(s))

RECURSIVE TrimStart(_)
TrimStart(s) ==
    IF s # <<>> /\ IsWhitespace(Head(s)) THEN TrimStart(Tail(s)) ELSE s

RECURSIVE TrimEnd(_)
TrimEnd(s) ==
    IF s # <<>> /\ IsWhitespace(s[Len(s)])
    THEN TrimEnd(SubSeq(s, 1, Len(s) - 1))
    ELSE s

Trim(s) == TrimEnd(TrimStart(s))

EqIgnoreAsciiCase(s, t) ==
    /\ Len(s) = Len(t)
    /\ \A i \in 1..Len(s) : ToAsciiLowercase(s[i]) = ToAsciiLowercase(t[i])

IATA == <<"I", "A", "T", "A">>

\* h.trim().eq_ignore_ascii_case("IATA")
IsIataCell(h) == EqIgnoreAsciiCase(Trim(h), IATA)

\* a header test that accepts every first row with a cell
header_has_any_cell(h) == h # <<>>

header_has_iata(h) == \E i \in 1..Len(h) : IsIataCell(h[i])

----------------------------------------------------------------------------
(* Table extraction: fetch_iata_table, extract_text *)

RECURSIVE Join(_, _)
Join(words, sep) ==
    IF words = <<>> THEN <<>>
    ELSE IF Len(words) = 1 THEN words[1]
    ELSE words[1] \o sep \o Join(Tail(words), sep)

\* length of the leading run of non-whitespace characters
WordLen(t) ==
    IF \E i \in 1..Len(t) : IsWhitespace(t[i])
    THEN (CHOOSE i \in 1..Len(t) :
            IsWhitespace(t[i]) /\ \A j \in 1..(i - 1) : ~IsWhitespace(t[j])) - 1
    ELSE Len(t)

RECURSIVE SplitWhitespace(_)
SplitWhitespace(s) ==
    LET t == TrimStart(s) IN
    IF t = <<>> THEN <<>>
    ELSE LET n == WordLen(t) IN
         <<SubSeq(t, 1, n)>> \o SplitWhitespace(SubSeq(t, n + 1, Len(t)))

\* A cell is [tag |-> "th" or "td", text |-> its descendant text nodes].
extract_text(node) ==
    LET raw == Join(node.text, <<"sp">>)
    IN  Join(SplitWhitespace(raw), <<"sp">>)

\* .map(extract_text).collect()
CellTexts(cells) == [i \in 1..Len(cells) |-> extract_text(cells[i])]

\* tr.select("th, td") and tr.select("td"), each mapped through extract_text
CellsThTd(tr) == CellTexts(SelectSeq(tr, LAMBDA c : c.tag \in {"th", "td"}))

CellsTd(tr) == CellTexts(SelectSeq(tr, LAMBDA c : c.tag = "td"))

\* the data rows of a table: td cells of every row after the first, empty rows dropped
DataRows(trs) ==
    SelectSeq([i \in 1..Len(trs) |-> CellsTd(trs[i])], LAMBDA r : r # <<>>)

ResErr == [tag |-> "Err"]

ResNone == [tag |-> "None"]

ResSome(h, rows) == [tag |-> "Some", header |-> h, rows |-> rows]

\* a loop over the tables in which a later qualifying table replaces an earlier one
RECURSIVE FirstIataTableLast(_)
FirstIataTableLast(tables) ==
    IF tables = <<>> THEN ResNone
    ELSE LET table == Head(tables)
             later == FirstIataTableLast(Tail(tables))
         IN  IF later.tag = "Some" THEN later
             ELSE IF table.class # "wikitable" THEN ResNone
             ELSE IF table.rows = <<>> THEN ResNone
             ELSE LET header_cells == CellsThTd(Head(table.rows)) IN
                  IF ~header_has_iata(header_cells) THEN ResNone
                  ELSE ResSome(header_cells, DataRows(Tail(table.rows)))

\* the loop over doc.select("table.wikitable"): a document is its sequence of tables
RECURSIVE FirstIataTable(_)
FirstIataTable(tables) ==
    IF tables = <<>> THEN ResNone
    ELSE LET table == Head(tables) IN
         IF table.class # "wikitable" THEN FirstIataTable(Tail(tables))
         ELSE IF table.rows = <<>> THEN FirstIataTable(Tail(tables))
         ELSE LET header_cells == CellsThTd(Head(table.rows)) IN
              IF ~header_has_iata(header_cells) THEN FirstIataTable(Tail(tables))
              ELSE ResSome(header_cells, DataRows(Tail(table.rows)))

\* Response::error_for_status : an error for 4xx and 5xx only
ErrorForStatus(status) == status >= 400 /\ status <= 599

\* StatusCode::is_success
IsSuccess(status) == status >= 200 /\ status <= 299

\* A response is [kind |-> "send_error"] or
\* [kind |-> "http", status |-> n, bodyOk |-> the body can be read, body |-> ...].
fetch_iata_table(resp) ==
    IF resp.kind = "send_error" THEN ResErr
    ELSE IF ErrorForStatus(resp.status) THEN ResErr
    ELSE IF ~resp.bodyOk THEN ResErr
    ELSE FirstIataTable(resp.body)

----------------------------------------------------------------------------
(* write_csv_normalized *)

NoFile == [exists |-> FALSE]

\* A file is given as the records a csv reader gets from its bytes.
CsvFile(records) == [exists |-> TRUE, records |-> records]

\* csv::Writer::write_record: the cells separated by commas, then a line
\* terminator; a record of one empty cell is written as a pair of quotes.
\* (No cell of the model holds a comma, a quote or a line break.)
CsvEncodeRecord(rec) ==
    (IF rec = << <<>> >> THEN <<"dq", "dq">> ELSE Join(rec, <<",">>)) \o <<"nl">>

RECURSIVE CsvEncode(_)
CsvEncode(records) ==
    IF records = <<>> THEN <<>>
    ELSE CsvEncodeRecord(Head(records)) \o CsvEncode(Tail(records))

\* the first n bytes of s; a character cut by the limit is left as "cut"
RECURSIVE TakeBytes(_, _)
TakeBytes(s, n) ==
    IF s = <<>> \/ n = 0 THEN <<>>
    ELSE IF LenUtf8(Head(s)) <= n
         THEN <<Head(s)>> \o TakeBytes(Tail(s), n - LenUtf8(Head(s)))
         ELSE <<"cut">>

\* the pieces of s between the occurrences of sep
RECURSIVE SplitOn(_, _)
SplitOn(s, sep) ==
    IF \E i \in 1..Len(s) : s[i] = sep
    THEN LET n == CHOOSE i \in 1..Len(s) : s[i] = sep /\ \A j \in 1..(i - 1) : s[j] # sep
         IN  <<SubSeq(s, 1, n - 1)>> \o SplitOn(SubSeq(s, n + 1, Len(s)), sep)
    ELSE <<s>>

\* csv::Reader: one record per non-empty line, also for a last line without
\* terminator; the quotes around a cell are dropped
CsvDecode(bytes) ==
    LET lines == SelectSeq(SplitOn(bytes, "nl"), LAMBDA l : l # <<>>)
        Field(f) == SelectSeq(f, LAMBDA c : c # "dq")
        Record(l) == LET fs == SplitOn(l, ",") IN [k \in 1..Len(fs) |-> Field(fs[k])]
    IN  [i \in 1..Len(lines) |-> Record(lines[i])]

\* a resize that pads in front of the cells
RECURSIVE ResizeFront(_, _)
ResizeFront(r, hlen) == IF Len(r) >= hlen THEN r ELSE ResizeFront(<< <<>> >> \o r, hlen)

\* tmp.resize(hlen, String::new())
RECURSIVE Resize(_, _)
Resize(r, hlen) == IF Len(r) >= hlen THEN r ELSE Resize(Append(r, <<>>), hlen)

\* r.iter().take(hlen)
Take(r, hlen) == SubSeq(r, 1, IF Len(r) < hlen THEN Len(r) ELSE hlen)

\* a writer that leaves the rows longer than the header as they are
NormalizeRowNoTruncate(r, hlen) ==
    IF Len(r) >= hlen THEN r ELSE Resize(r, hlen)

\* the record written for the raw row r under a header of hlen cells
NormalizeRow(r, hlen) ==
    IF Len(r) = hlen THEN r
    ELSE IF Len(r) > hlen THEN Take(r, hlen)
    ELSE Resize(r, hlen)

\* the records of the file after write_csv_normalized(header, rows)
write_csv_normalized(h, rows) ==
    <<h>> \o [i \in 1..Len(rows) |-> NormalizeRow(rows[i], Len(h))]

----------------------------------------------------------------------------
(* download_logos: the code collector *)

\* headers.iter().position(..): the first marker column, 0 for None
IataIndex(headers) ==
    IF \E i \in 1..Len(headers) : IsIataCell(headers[i])
    THEN CHOOSE i \in 1..Len(headers) :
            IsIataCell(headers[i]) /\ \A j \in 1..(i - 1) : ~IsIataCell(headers[j])
    ELSE 0

\* val.trim().to_uppercase()
CodeOf(val) == ToUppercase(Trim(val))

\* a filter that checks the length only
IsValidCodeLenOnly(code) == StrLen(code) = 2

\* code.len() == 2 && code.chars().all(|c| c.is_ascii_alphanumeric())
IsValidCode(code) ==
    /\ StrLen(code) = 2
    /\ \A i \in 1..Len(code) : IsAsciiAlphanumeric(code[i])

\* the HashSet built from the data records; a record too short for the column is skipped
CollectCodes(records, iata_index) ==
    { CodeOf(records[i][iata_index]) :
        i \in { j \in 2..Len(records) :
                  /\ iata_index <= Len(records[j])
                  /\ IsValidCode(CodeOf(records[j][iata_index])) } }

----------------------------------------------------------------------------
(* try_download *)

\* Path::new(out_dir).join(format!("{iata}.png"))
PngName(iata) == iata \o <<".", "p", "n", "g">>

OutcomeOk == [kind |-> "ok"]

OutcomeSkip == [kind |-> "skip"]

OutcomeErr(detail) == [kind |-> "err", detail |-> detail]

\* a try_download that skips on 404 only
try_download_404_only(resp, disk) ==
    IF resp.kind = "send_error" THEN OutcomeErr(<<"send">>)
    ELSE IF resp.status = 404 THEN OutcomeSkip
    ELSE IF ~IsSuccess(resp.status) THEN OutcomeErr(<<"http", resp.status>>)
    ELSE IF ~resp.bodyOk THEN OutcomeErr(<<"body">>)
    ELSE IF disk.kind # "ok" THEN OutcomeErr(<<"io">>)
    ELSE OutcomeOk

\* What the task of one code reports for a response and a disk behaviour.
\* disk is how fs::write goes: [kind |-> "ok"], [kind |-> "create_failed"] (the file
\* cannot be opened) or [kind |-> "partial", n |-> k] (it fails after k bytes).
try_download(resp, disk) ==
    IF resp.kind = "send_error" THEN OutcomeErr(<<"send">>)
    ELSE IF resp.status = 404 \/ resp.status = 410 THEN OutcomeSkip
    ELSE IF ~IsSuccess(resp.status) THEN OutcomeErr(<<"http", resp.status>>)
    ELSE IF ~resp.bodyOk THEN OutcomeErr(<<"body">>)
    ELSE IF disk.kind # "ok" THEN OutcomeErr(<<"io">>)
    ELSE OutcomeOk

\* whether try_download reaches resp.bytes().await
ReachesBody(resp) ==
    /\ resp.kind = "http"
    /\ resp.status # 404
    /\ resp.status # 410
    /\ IsSuccess(resp.status)

\* whether try_download reaches fs::write
ReachesWrite(resp) ==
    /\ resp.kind = "http"
    /\ resp.status # 404
    /\ resp.status # 410
    /\ IsSuccess(resp.status)
    /\ resp.bodyOk

\* a try_download that writes the body of every response, whatever its status
FilesAfterAnyStatus(fs, iata, resp, disk) ==
    IF resp.kind # "http" \/ ~resp.bodyOk \/ disk.kind = "create_failed" THEN fs
    ELSE LET bytes == IF disk.kind = "ok" THEN resp.body
                      ELSE SubSeq(resp.body, 1, disk.n)
             name == PngName(iata)
         IN  [n \in (DOMAIN fs) \cup {name} |-> IF n = name THEN bytes ELSE fs[n]]

\* the files of OUT_DIR after the task of code iata met resp and disk
FilesAfter(fs, iata, resp, disk) ==
    IF ~ReachesWrite(resp) \/ disk.kind = "create_failed" THEN fs
    ELSE LET bytes == IF disk.kind = "ok" THEN resp.body
                      ELSE SubSeq(resp.body, 1, disk.n)
             name == PngName(iata)
         IN  [n \in (DOMAIN fs) \cup {name} |-> IF n = name THEN bytes ELSE fs[n]]

----------------------------------------------------------------------------
(* The inputs: pages, responses, disk behaviour *)

Th(t) == [tag |-> "th", text |-> <<t>>]

Td(t) == [tag |-> "td", text |-> <<t>>]

\* a page with a non-wikitable, a wikitable without the marker, the qualifying
\* table (3 columns, rows of 3, 0, 1 and 5 data cells) and a later qualifying table
PageA ==
    << [class |-> "other",
        rows |-> << <<Th(<<"I", "A", "T", "A">>)>>, <<Td(<<"X", "X">>)>> >>],
       [class |-> "wikitable",
        rows |-> << <<Th(<<"B", "I", "T">>), Th(<<"X">>)>>, <<Td(<<"S", "S">>), Td(<<"x">>)>> >>],
       [class |-> "wikitable",
        rows |-> << <<Th(<<"sp", "I", "A", "T", "A", "sp">>), Th(<<"B", "I", "T">>), Th(<<"X">>)>>,
                    <<Td(<<"a", "a">>), Td(<<"A", "2">>), Td(<<"x">>)>>,
                    <<Th(<<"B">>)>>,
                    <<[tag |-> "td", text |-> << <<"sp", "B", "1">>, <<"tab">> >>]>>,
                    <<Td(<<"A", "A">>), Td(<<"x">>), Td(<<"x">>), Td(<<"1">>), Td(<<"2">>)>> >>],
       [class |-> "wikitable",
        rows |-> << <<Th(<<"I", "A", "T", "A">>)>>, <<Td(<<"X", "X">>)>> >>] >>

\* a page whose qualifying table has 2 columns, the marker second and in lower case
PageB ==
    << [class |-> "wikitable", rows |-> <<>>],
       [class |-> "wikitable",
        rows |-> << <<Td(<<"X">>), Th(<<"i", "a", "t", "a">>)>>,
                    <<Td(<<"x">>), Td(<<"b", "1">>)>>,
                    <<Td(<<"x">>), Td(<<"a", "!">>), Td(<<"1">>)>>,
                    <<Td(<<"s">>)>> >>] >>

\* a page with tables, none with the marker
PageNone ==
    << [class |-> "wikitable",
        rows |-> << <<Th(<<"B", "I", "T">>), Th(<<"X">>)>>, <<Td(<<"A", "A">>), Td(<<"x">>)>> >>] >>

SendError == [kind |-> "send_error"]

Http(status, body) == [kind |-> "http", status |-> status, bodyOk |-> TRUE, body |-> body]

HttpBroken(status) == [kind |-> "http", status |-> status, bodyOk |-> FALSE, body |-> <<>>]

\* what client.get(url).send() and .text() can give for a document
DocResponses ==
    { SendError, Http(503, PageA), Http(404, <<>>), Http(300, PageB), HttpBroken(200),
      Http(200, PageA), Http(200, PageB), Http(200, PageNone) }

DiskOk == [kind |-> "ok"]

DiskCreateFailed == [kind |-> "create_failed"]

DiskPartial(n) == [kind |-> "partial", n |-> n]

Png1 == <<137, 80>>

\* how the disk can treat the dataset file: it takes every byte, the file
\* cannot be created, or it takes the first n bytes and then refuses
CsvDisks == {DiskOk, DiskCreateFailed} \cup { DiskPartial(n) : n \in 0..MaxCsvBytes }

Resolution(resp, disk) == [resp |-> resp, disk |-> disk]

\* what the request and the write of one logo can meet, in a fixed order
LogoResolutionList ==
    << Resolution(Http(200, Png1), DiskOk),
       Resolution(Http(404, <<>>), DiskOk),
       Resolution(Http(500, <<>>), DiskOk),
       Resolution(SendError, DiskOk),
       Resolution(Http(410, Png1), DiskOk),
       Resolution(Http(204, <<>>), DiskOk),
       Resolution(Http(301, Png1), DiskOk),
       Resolution(HttpBroken(200), DiskOk),
       Resolution(Http(200, Png1), DiskCreateFailed),
       Resolution(Http(200, Png1), DiskPartial(1)) >>

LogoResolutions == { LogoResolutionList[i] : i \in 1..Len(LogoResolutionList) }

\* the responses the document at index i can get: any, unless web fixes them
DocAllowed(i) == IF i \in DOMAIN web THEN web[i] ELSE DocResponses

\* the resolutions the code c can meet: any, unless served fixes them
Allowed(c) == IF c \in DOMAIN served THEN served[c] ELSE LogoResolutions

----------------------------------------------------------------------------
(* main: scrape_all, then write_csv_normalized, then download_logos *)

\* main: "0-9" (percent-encoded en dash) plus A..Z
Suffixes ==
    << "0%E2%80%939", "A", "B", "C", "D", "E", "F", "G", "H", "I", "J", "K", "L", "M",
       "N", "O", "P", "Q", "R", "S", "T", "U", "V", "W", "X", "Y", "Z" >>

None == [some |-> FALSE]

Some(v) == [some |-> TRUE, value |-> v]

\* a file of an earlier run at CSV_PATH
OldCsv == CsvFile(<< <<IATA>>, <<<<"X", "X">>>> >>)

\* a logo of an earlier run in OUT_DIR
OldFiles == (PngName(<<"A", "A">>) :> <<7>>)

\* pool counts the tasks of download_logos: codes, the size of the set; tasks,
\* those the iterator has not yielded; queued, those pulled into the buffer and
\* not yet polled; sent, those whose request is out; body, those that met a 2xx
\* status and wait for the body; ok, skip, err, those that reported. Where the
\* tasks are followed by code, pool is not used and stays at this value
EmptyPool ==
    [codes |-> 0, tasks |-> 0, queued |-> 0, sent |-> 0, body |-> 0,
     ok |-> 0, skip |-> 0, err |-> 0]

Init ==
    /\ pc = "start"
    /\ exit = "running"
    /\ idx = 1
    /\ header = None
    /\ rows_all = <<>>
    /\ results = <<>>
    /\ docGets = [i \in 1..NumDocs |-> 0]
    /\ csv \in {NoFile, OldCsv}
    /\ unique = {}
    /\ tasks = <<>>
    /\ inflight = {}
    /\ outcome = <<>>
    /\ logoGets = <<>>
    /\ received = <<>>
    /\ files = OldFiles
    /\ served = <<>>
    /\ web = <<>>
    /\ run = 1
    /\ queued = <<>>
    /\ pool = EmptyPool
    /\ datasets = <<>>

\* what main can meet before scrape_all: no argument (expect panics), a client
\* that cannot be built, an output directory that cannot be created, or none
MainStarts == {"ok", "usage", "http client", "mkdir output"}

\* main up to the call of scrape_all
MainStart(met) ==
    /\ pc = "start"
    /\ IF met = "ok"
       THEN pc' = "scrape" /\ exit' = exit
       ELSE pc' = "failed" /\ exit' = met
    /\ UNCHANGED <<idx, header, rows_all, results, docGets, csv, unique, tasks, inflight,
                   outcome, logoGets, received, files, served, web, run, queued, pool, datasets>>

\* a scrape_all that sends the request of the next document along with this one
FetchStartEager ==
    /\ pc = "scrape"
    /\ idx <= NumDocs
    /\ pc' = "fetching"
    /\ docGets' = [i \in 1..NumDocs |->
                     IF i = idx \/ i = idx + 1 THEN docGets[i] + 1 ELSE docGets[i]]
    /\ UNCHANGED <<exit, idx, header, rows_all, results, csv, unique, tasks, inflight,
                   outcome, logoGets, received, files, served, web, run, queued, pool, datasets>>

\* scrape_all: the request of the document at idx is sent
FetchStart ==
    /\ pc = "scrape"
    /\ idx <= NumDocs
    /\ pc' = "fetching"
    /\ docGets' = [docGets EXCEPT ![idx] = @ + 1]
    /\ UNCHANGED <<exit, idx, header, rows_all, results, csv, unique, tasks, inflight,
                   outcome, logoGets, received, files, served, web, run, queued, pool, datasets>>

\* a scrape_all in which every qualifying document replaces the header
FetchDoneLastWins(resp) ==
    /\ pc = "fetching"
    /\ resp \in DocAllowed(idx)
    /\ LET r == fetch_iata_table(resp) IN
       /\ results' = Append(results,
                       [suffix |-> Suffixes[idx],
                        status |-> IF resp.kind = "http" THEN resp.status ELSE 0,
                        result |-> r])
       /\ header' = IF r.tag = "Some" THEN Some(r.header) ELSE header
       /\ rows_all' = IF r.tag = "Some" THEN rows_all \o r.rows ELSE rows_all
    /\ idx' = idx + 1
    /\ pc' = "scrape"
    /\ UNCHANGED <<exit, docGets, csv, unique, tasks, inflight, outcome, logoGets,
                   received, files, served, web, run, queued, pool, datasets>>

\* a scrape_all that puts the rows of a document before those already gathered
FetchDonePrepend(resp) ==
    /\ pc = "fetching"
    /\ resp \in DocAllowed(idx)
    /\ LET r == fetch_iata_table(resp) IN
       /\ results' = Append(results,
                       [suffix |-> Suffixes[idx],
                        status |-> IF resp.kind = "http" THEN resp.status ELSE 0,
                        result |-> r])
       /\ header' = IF r.tag = "Some" /\ header = None THEN Some(r.header) ELSE header
       /\ rows_all' = IF r.tag = "Some" THEN r.rows \o rows_all ELSE rows_all
    /\ idx' = idx + 1
    /\ pc' = "scrape"
    /\ UNCHANGED <<exit, docGets, csv, unique, tasks, inflight, outcome, logoGets,
                   received, files, served, web, run, queued, pool, datasets>>

\* scrape_all: fetch_iata_table returns for the document at idx, and the match on it
FetchDone(resp) ==
    /\ pc = "fetching"
    /\ resp \in DocAllowed(idx)
    /\ LET r == fetch_iata_table(resp) IN
       /\ results' = Append(results,
                       [suffix |-> Suffixes[idx],
                        status |-> IF resp.kind = "http" THEN resp.status ELSE 0,
                        result |-> r])
       /\ header' = IF r.tag = "Some" /\ header = None THEN Some(r.header) ELSE header
       /\ rows_all' = IF r.tag = "Some" THEN rows_all \o r.rows ELSE rows_all
    /\ idx' = idx + 1
    /\ pc' = "scrape"
    /\ UNCHANGED <<exit, docGets, csv, unique, tasks, inflight, outcome, logoGets,
                   received, files, served, web, run, queued, pool, datasets>>

\* a scrape_all that returns an empty header when no document qualified
ScrapeReturnDefault ==
    /\ pc = "scrape"
    /\ idx > NumDocs
    /\ pc' = "write"
    /\ header' = IF header = None THEN Some(<<>>) ELSE header
    /\ UNCHANGED <<exit, idx, rows_all, results, docGets, csv, unique, tasks, inflight,
                   outcome, logoGets, received, files, served, web, run, queued, pool, datasets>>

\* scrape_all returns: header.context("no pages yielded an IATA table")?
ScrapeReturn ==
    /\ pc = "scrape"
    /\ idx > NumDocs
    /\ IF header = None
       THEN pc' = "failed" /\ exit' = "no pages yielded an IATA table"
       ELSE pc' = "write" /\ exit' = exit
    /\ UNCHANGED <<idx, header, rows_all, results, docGets, csv, unique, tasks, inflight,
                   outcome, logoGets, received, files, served, web, run, queued, pool, datasets>>

\* the file at CSV_PATH after the writer has sent bytes to a disk that behaves
\* as disk: the records a reader gets from the bytes the disk took
CsvOnDisk(bytes, disk) ==
    CsvFile(CsvDecode(IF disk.kind = "partial" THEN TakeBytes(bytes, disk.n) ELSE bytes))

\* whether the disk takes all of bytes
DiskTakes(bytes, disk) ==
    disk.kind = "ok" \/ (disk.kind = "partial" /\ disk.n >= StrLen(bytes))

\* a write_csv_normalized that opens an existing file for appending
WriteCsvAppend(disk) ==
    /\ pc = "write"
    /\ LET old == IF csv.exists THEN CsvEncode(csv.records) ELSE <<>>
           bytes == old \o CsvEncode(write_csv_normalized(header.value, rows_all))
       IN  IF disk.kind = "create_failed"
           THEN csv' = csv /\ pc' = "failed" /\ exit' = "csv" /\ datasets' = datasets
           ELSE /\ csv' = CsvOnDisk(bytes, disk)
                /\ IF DiskTakes(bytes, disk)
                   THEN pc' = "collect" /\ exit' = exit /\ datasets' = Append(datasets, csv')
                   ELSE pc' = "failed" /\ exit' = "csv" /\ datasets' = datasets
    /\ UNCHANGED <<idx, header, rows_all, results, docGets, unique, tasks, inflight,
                   outcome, logoGets, received, files, served, web, run, queued, pool>>

\* main calls write_csv_normalized. from_path(CSV_PATH)? fails and leaves the
\* file alone, or creates or truncates it; the records go to the writer and
\* flush()? sends them to the disk, which takes them all or a part of them.
\* A write that returns Ok(()) is noted in datasets with the file it left
WriteCsv(disk) ==
    /\ pc = "write"
    /\ LET bytes == CsvEncode(write_csv_normalized(header.value, rows_all)) IN
       IF disk.kind = "create_failed"
       THEN csv' = csv /\ pc' = "failed" /\ exit' = "csv" /\ datasets' = datasets
       ELSE /\ csv' = CsvOnDisk(bytes, disk)
            /\ IF DiskTakes(bytes, disk)
               THEN pc' = "collect" /\ exit' = exit /\ datasets' = Append(datasets, csv')
               ELSE pc' = "failed" /\ exit' = "csv" /\ datasets' = datasets
    /\ UNCHANGED <<idx, header, rows_all, results, docGets, unique, tasks, inflight,
                   outcome, logoGets, received, files, served, web, run, queued, pool>>

\* the orders in which a HashSet can be iterated
Orders(S) ==
    { f \in [1..Cardinality(S) -> S] : \A i, j \in 1..Cardinality(S) : f[i] = f[j] => i = j }

\* a download_logos that makes one task per valid record, without deduplication
CollectNoDedup ==
    /\ pc = "collect"
    /\ LET iata_index == IataIndex(csv.records[1]) IN
       IF iata_index = 0
       THEN /\ pc' = "failed"
            /\ exit' = "IATA column not found"
            /\ UNCHANGED <<unique, tasks>>
       ELSE LET Valid(rec) == /\ iata_index <= Len(rec)
                              /\ IsValidCode(CodeOf(rec[iata_index]))
                kept == SelectSeq(Tail(csv.records), Valid)
            IN  /\ unique' = CollectCodes(csv.records, iata_index)
                /\ tasks' = [k \in 1..Len(kept) |-> CodeOf(kept[k][iata_index])]
                /\ pc' = "download"
                /\ exit' = exit
    /\ UNCHANGED <<idx, header, rows_all, results, docGets, csv, inflight, outcome,
                   logoGets, received, files, served, web, run, queued, pool, datasets>>

\* download_logos up to the creation of the task iterator
Collect ==
    /\ pc = "collect"
    /\ LET iata_index == IataIndex(csv.records[1]) IN
       IF iata_index = 0
       THEN /\ pc' = "failed"
            /\ exit' = "IATA column not found"
            /\ UNCHANGED <<unique, tasks>>
       ELSE /\ unique' = CollectCodes(csv.records, iata_index)
            /\ tasks' \in Orders(unique')
            /\ pc' = "download"
            /\ exit' = exit
    /\ UNCHANGED <<idx, header, rows_all, results, docGets, csv, inflight, outcome,
                   logoGets, received, files, served, web, run, queued, pool, datasets>>

\* buffer_unordered(12)
BufferLimit == 12

\* BufferUnordered::poll_next pulls a task while in_progress_queue.len() < max
HasCapacity == Len(queued) + Cardinality(inflight) < BufferLimit

\* BufferUnordered pulls the next task of the iterator into its queue: the
\* closure of lines 163-166 runs, nothing is sent yet
DLPull ==
    /\ pc = "download"
    /\ tasks # <<>>
    /\ HasCapacity
    /\ queued' = Append(queued, Head(tasks))
    /\ tasks' = Tail(tasks)
    /\ UNCHANGED <<pc, exit, idx, header, rows_all, results, docGets, csv, unique,
                   inflight, outcome, logoGets, received, files, served, web, run,
                   pool, datasets>>

\* a downloader that takes each code out of the set as its request is sent
DLSendDrain ==
    /\ pc = "download"
    /\ tasks = <<>> \/ ~HasCapacity
    /\ queued # <<>>
    /\ LET iata == Head(queued) IN
       /\ inflight' = inflight \cup {iata}
       /\ unique' = unique \ {iata}
       /\ logoGets' = [c \in (DOMAIN logoGets) \cup {iata} |->
                         IF c # iata THEN logoGets[c]
                         ELSE IF iata \in DOMAIN logoGets THEN logoGets[iata] + 1 ELSE 1]
    /\ queued' = Tail(queued)
    /\ UNCHANGED <<pc, exit, idx, header, rows_all, results, docGets, csv, tasks,
                   outcome, received, files, served, web, run, pool, datasets>>

\* the queue is polled once the buffer is full or the iterator is exhausted; the
\* tasks not yet polled are polled in the order they were pulled, and at its
\* first poll a task calls try_download, which sends the request
DLSend ==
    /\ pc = "download"
    /\ tasks = <<>> \/ ~HasCapacity
    /\ queued # <<>>
    /\ LET iata == Head(queued) IN
       /\ inflight' = inflight \cup {iata}
       /\ logoGets' = [c \in (DOMAIN logoGets) \cup {iata} |->
                         IF c # iata THEN logoGets[c]
                         ELSE IF iata \in DOMAIN logoGets THEN logoGets[iata] + 1 ELSE 1]
    /\ queued' = Tail(queued)
    /\ UNCHANGED <<pc, exit, idx, header, rows_all, results, docGets, csv, unique, tasks,
                   outcome, received, files, served, web, run, pool, datasets>>

\* a task that propagates the error of try_download, ending the batch
DLResolveAbort(iata, rz) ==
    /\ pc = "download"
    /\ tasks = <<>> \/ ~HasCapacity
    /\ iata \in inflight
    /\ iata \notin DOMAIN received
    /\ rz \in Allowed(iata)
    /\ received' = (iata :> rz) @@ received
    /\ IF ReachesBody(rz.resp)
       THEN UNCHANGED <<pc, exit, inflight, outcome, files>>
       ELSE /\ inflight' = inflight \ {iata}
            /\ outcome' = (iata :> try_download(rz.resp, rz.disk)) @@ outcome
            /\ files' = FilesAfter(files, iata, rz.resp, rz.disk)
            /\ IF try_download(rz.resp, rz.disk).kind = "err"
               THEN pc' = "failed" /\ exit' = "download"
               ELSE pc' = pc /\ exit' = exit
    /\ UNCHANGED <<idx, header, rows_all, results, docGets, csv, unique, tasks,
                   logoGets, served, web, run, queued, pool, datasets>>

\* a task that queues its code again when try_download fails
DLResolveRetry(iata, rz) ==
    /\ pc = "download"
    /\ tasks = <<>> \/ ~HasCapacity
    /\ iata \in inflight
    /\ iata \notin DOMAIN received
    /\ rz \in Allowed(iata)
    /\ received' = (iata :> rz) @@ received
    /\ IF ReachesBody(rz.resp)
       THEN UNCHANGED <<inflight, outcome, files, tasks>>
       ELSE /\ inflight' = inflight \ {iata}
            /\ outcome' = (iata :> try_download(rz.resp, rz.disk)) @@ outcome
            /\ files' = FilesAfter(files, iata, rz.resp, rz.disk)
            /\ tasks' = IF try_download(rz.resp, rz.disk).kind = "err"
                        THEN Append(tasks, iata) ELSE tasks
    /\ UNCHANGED <<pc, exit, idx, header, rows_all, results, docGets, csv, unique,
                   logoGets, served, web, run, queued, pool, datasets>>

\* the queue is polled once the buffer is full or the iterator is exhausted: the
\* task of iata is polled after send().await has met rz.resp. On a send error,
\* 404, 410 or another non-2xx status try_download returns and the task
\* reports; on a 2xx status the task stops at resp.bytes().await
DLResolve(iata, rz) ==
    /\ pc = "download"
    /\ tasks = <<>> \/ ~HasCapacity
    /\ iata \in inflight
    /\ iata \notin DOMAIN received
    /\ rz \in Allowed(iata)
    /\ received' = (iata :> rz) @@ received
    /\ IF ReachesBody(rz.resp)
       THEN UNCHANGED <<inflight, outcome, files>>
       ELSE /\ inflight' = inflight \ {iata}
            /\ outcome' = (iata :> try_download(rz.resp, rz.disk)) @@ outcome
            /\ files' = FilesAfter(files, iata, rz.resp, rz.disk)
    /\ UNCHANGED <<pc, exit, idx, header, rows_all, results, docGets, csv, unique, tasks,
                   logoGets, served, web, run, queued, pool, datasets>>

\* the task of iata is polled after the body of its 2xx response has arrived or
\* its reading has failed: fs::write, try_download returns and the task reports
DLBody(iata) ==
    /\ pc = "download"
    /\ tasks = <<>> \/ ~HasCapacity
    /\ iata \in inflight
    /\ iata \in DOMAIN received
    /\ LET rz == received[iata] IN
       /\ inflight' = inflight \ {iata}
       /\ outcome' = (iata :> try_download(rz.resp, rz.disk)) @@ outcome
       /\ files' = FilesAfter(files, iata, rz.resp, rz.disk)
    /\ UNCHANGED <<pc, exit, idx, header, rows_all, results, docGets, csv, unique, tasks,
                   logoGets, received, served, web, run, queued, pool, datasets>>

\* the stream ends: collect completes, download_logos returns Ok(()), main prints Done
DLReturn ==
    /\ pc = "download"
    /\ tasks = <<>>
    /\ queued = <<>>
    /\ inflight = {}
    /\ pc' = "done"
    /\ exit' = "ok"
    /\ UNCHANGED <<idx, header, rows_all, results, docGets, csv, unique, tasks, inflight,
                   outcome, logoGets, received, files, served, web, run, queued, pool, datasets>>

Next ==
    \/ \E met \in MainStarts : MainStart(met)
    \/ FetchStart
    \/ \E resp \in DocAllowed(idx) : FetchDone(resp)
    \/ ScrapeReturn
    \/ \E disk \in CsvDisks : WriteCsv(disk)
    \/ Collect
    \/ DLPull
    \/ DLSend
    \/ \E iata \in inflight : \E rz \in Allowed(iata) : DLResolve(iata, rz)
    \/ \E iata \in inflight : DLBody(iata)
    \/ DLReturn

Spec == Init /\ [][Next]_vars

----------------------------------------------------------------------------
(* The program run again: main is started a second time once the earlier run
   has ended, against the same documents, with the files the earlier run left
   on disk *)

\* the process of the earlier run has ended, Ok or with an error, and main is
\* started again: nothing of the memory of the earlier run remains, the dataset
\* file and the output directory are as that run left them
Restart ==
    /\ pc \in {"done", "failed"}
    /\ run < MaxRuns
    /\ run' = run + 1
    /\ pc' = "start"
    /\ exit' = "running"
    /\ idx' = 1
    /\ header' = None
    /\ rows_all' = <<>>
    /\ results' = <<>>
    /\ docGets' = [i \in 1..NumDocs |-> 0]
    /\ unique' = {}
    /\ tasks' = <<>>
    /\ queued' = <<>>
    /\ inflight' = {}
    /\ outcome' = <<>>
    /\ logoGets' = <<>>
    /\ received' = <<>>
    /\ UNCHANGED <<csv, files, served, web, pool, datasets>>

\* the codes the sample pages can yield, whichever column the header of the
\* first qualifying document puts the marker in
PageCodes == { <<"A", "A">>, <<"B", "1">>, <<"A", "2">> }

\* what the logo host of the repeated runs answers: a logo, 404 or no connection
RerunAnswers == { LogoResolutionList[1], LogoResolutionList[2], LogoResolutionList[4] }

\* what a document of the repeated runs is answered with: no connection, a page
\* with a qualifying table (two pages of different widths) or a page without
RerunResponses == { SendError, Http(200, PageA), Http(200, PageB), Http(200, PageNone) }

\* every document has one fixed answer, the same in every run; the dataset file
\* is absent or left by a run against other documents
InitRerun ==
    /\ pc = "start"
    /\ exit = "running"
    /\ idx = 1
    /\ header = None
    /\ rows_all = <<>>
    /\ results = <<>>
    /\ docGets = [i \in 1..NumDocs |-> 0]
    /\ csv \in {NoFile, OldCsv}
    /\ unique = {}
    /\ tasks = <<>>
    /\ inflight = {}
    /\ outcome = <<>>
    /\ logoGets = <<>>
    /\ received = <<>>
    /\ files = OldFiles
    /\ served = [c \in PageCodes |-> RerunAnswers]
    /\ web \in [1..NumDocs -> { {resp} : resp \in RerunResponses }]
    /\ run = 1
    /\ queued = <<>>
    /\ pool = EmptyPool
    /\ datasets = <<>>

NextRerun ==
    \/ \E met \in MainStarts : MainStart(met)
    \/ FetchStart
    \/ \E resp \in DocAllowed(idx) : FetchDone(resp)
    \/ ScrapeReturn
    \/ \E disk \in CsvDisks : WriteCsv(disk)
    \/ Collect
    \/ DLPull
    \/ DLSend
    \/ \E iata \in inflight : \E rz \in Allowed(iata) : DLResolve(iata, rz)
    \/ \E iata \in inflight : DLBody(iata)
    \/ DLReturn
    \/ Restart

SpecRerun == InitRerun /\ [][NextRerun]_vars

----------------------------------------------------------------------------
(* The table selection alone: fetch_iata_table on enumerated documents *)

\* the tables of the sample pages, a table whose first cell only starts with
\* the marker, and a table of one row whose td cell is the padded marker
TTableList ==
    << PageA[1], PageA[2], PageA[3], PageA[4], PageB[1], PageB[2],
       [class |-> "wikitable",
        rows |-> << <<Th(<<"I", "A", "T", "A", "sp", "X">>)>>, <<Td(<<"A", "A">>)>> >>],
       [class |-> "wikitable",
        rows |-> << <<Td(<<"nbsp", "i", "A", "t", "a", "tab">>)>> >>] >>

\* the documents of at most MaxTables tables
TDocs ==
    UNION { [1..n -> { TTableList[k] : k \in 1..Len(TTableList) }] : n \in 0..MaxTables }

\* the request of the first document is sent; its answer is the document doc
InitT ==
    \E doc \in TDocs :
        /\ pc = "fetching"
        /\ exit = "running"
        /\ idx = 1
        /\ header = None
        /\ rows_all = <<>>
        /\ results = <<>>
        /\ docGets = [i \in 1..NumDocs |-> IF i = 1 THEN 1 ELSE 0]
        /\ csv = NoFile
        /\ unique = {}
        /\ tasks = <<>>
        /\ inflight = {}
        /\ outcome = <<>>
        /\ logoGets = <<>>
        /\ received = <<>>
        /\ files = OldFiles
        /\ served = <<>>
        /\ web = (1 :> {Http(200, doc)})
        /\ run = 1
        /\ queued = <<>>
        /\ pool = EmptyPool
        /\ datasets = <<>>

NextT == \E resp \in DocAllowed(idx) : FetchDone(resp)

SpecT == InitT /\ [][NextT]_vars

----------------------------------------------------------------------------
(* The downloader alone, for code sets larger than the buffer. The tasks are
   followed by number: the iterator of the HashSet yields the codes in an
   order that differs from run to run, a task reads its code only to build its
   own url and path, and what a request meets does not depend on the code. So
   pool counts the tasks at each place of download_logos, which leaves every
   iteration order and every answer of the host to every code in; tasks,
   queued, inflight, the per-code records and the files of OUT_DIR are not
   followed here *)

DLChars == <<"A", "B", "1", "2">>

\* the i-th code of the enumerated code sets
DLCode(i) == <<DLChars[((i - 1) \div 4) + 1], DLChars[((i - 1) % 4) + 1]>>

\* scrape_all has returned h and rows after fetching every document
AfterScrape(h, rows) ==
    /\ exit = "running"
    /\ idx = NumDocs + 1
    /\ header = Some(h)
    /\ rows_all = rows
    /\ results = [i \in 1..NumDocs |->
                    [suffix |-> Suffixes[i],
                     status |-> 200,
                     result |-> IF i = 1 THEN ResSome(h, rows) ELSE ResNone]]
    /\ docGets = [i \in 1..NumDocs |-> 1]

\* in_progress_queue.len(): the tasks in the buffer, polled or not
InProgress(p) == p.queued + p.sent + p.body

\* a buffer that admits one task too many
PoolHasCapacityOffByOne(p) == InProgress(p) <= BufferLimit

\* BufferUnordered::poll_next pulls a task while in_progress_queue.len() < max
PoolHasCapacity(p) == InProgress(p) < BufferLimit

\* the queue is polled once the buffer is full or the iterator is exhausted
PoolPolls(p) == p.tasks = 0 \/ ~PoolHasCapacity(p)

\* the task reports: one line of kind ok, skip or err, and Ok(()) to the stream
PoolReport(p, kind) ==
    IF kind = "ok" THEN [p EXCEPT !.ok = @ + 1]
    ELSE IF kind = "skip" THEN [p EXCEPT !.skip = @ + 1]
    ELSE [p EXCEPT !.err = @ + 1]

\* the numbers after the next task of the iterator was pulled into the queue
PoolAfterPull(p) == [p EXCEPT !.tasks = @ - 1, !.queued = @ + 1]

\* the numbers after a task was polled for the first time and sent its request
PoolAfterSend(p) == [p EXCEPT !.queued = @ - 1, !.sent = @ + 1]

\* the numbers after send().await of a task has met rz.resp
PoolAfterResolve(p, rz) ==
    IF ReachesBody(rz.resp)
    THEN [p EXCEPT !.sent = @ - 1, !.body = @ + 1]
    ELSE PoolReport([p EXCEPT !.sent = @ - 1], try_download(rz.resp, rz.disk).kind)

\* the numbers after resp.bytes().await of a task has ended as rz tells
PoolAfterBody(p, rz) ==
    PoolReport([p EXCEPT !.body = @ - 1], try_download(rz.resp, rz.disk).kind)

\* download_logos has built the set of n codes and the task iterator over it
InitDL ==
    \E n \in 0..MaxCodes :
        LET rows == [i \in 1..n |-> <<DLCode(i)>>] IN
        /\ pc = "download"
        /\ AfterScrape(<<IATA>>, rows)
        /\ csv = CsvFile(<< <<IATA>> >> \o rows)
        /\ unique = { DLCode(i) : i \in 1..n }
        /\ pool = [codes |-> n, tasks |-> n, queued |-> 0, sent |-> 0, body |-> 0,
                   ok |-> 0, skip |-> 0, err |-> 0]
        /\ tasks = <<>>
        /\ queued = <<>>
        /\ inflight = {}
        /\ outcome = <<>>
        /\ logoGets = <<>>
        /\ received = <<>>
        /\ files = OldFiles
        /\ served = <<>>
        /\ web = <<>>
        /\ run = 1
        /\ datasets = << csv >>

\* BufferUnordered pulls the next task of the iterator into its queue
PoolPull ==
    /\ pc = "download"
    /\ pool.tasks > 0
    /\ PoolHasCapacity(pool)
    /\ pool' = PoolAfterPull(pool)
    /\ UNCHANGED <<pc, exit, idx, header, rows_all, results, docGets, csv, unique, tasks,
                   inflight, outcome, logoGets, received, files, served, web, run, queued,
                   datasets>>

\* the queue is polled once the buffer is full or the iterator is exhausted: a
\* task is polled for the first time and try_download sends its request
PoolSend ==
    /\ pc = "download"
    /\ PoolPolls(pool)
    /\ pool.queued > 0
    /\ pool' = PoolAfterSend(pool)
    /\ UNCHANGED <<pc, exit, idx, header, rows_all, results, docGets, csv, unique, tasks,
                   inflight, outcome, logoGets, received, files, served, web, run, queued,
                   datasets>>

\* a task is polled after send().await has met rz.resp: on a send error, 404,
\* 410 or another non-2xx status it reports, on a 2xx status it stops at
\* resp.bytes().await
PoolResolve(rz) ==
    /\ pc = "download"
    /\ PoolPolls(pool)
    /\ pool.sent > 0
    /\ rz \in LogoResolutions
    /\ pool' = PoolAfterResolve(pool, rz)
    /\ UNCHANGED <<pc, exit, idx, header, rows_all, results, docGets, csv, unique, tasks,
                   inflight, outcome, logoGets, received, files, served, web, run, queued,
                   datasets>>

\* a task is polled after the body of its 2xx response has arrived or its
\* reading has failed, as rz tells: fs::write, and the task reports
PoolBody(rz) ==
    /\ pc = "download"
    /\ PoolPolls(pool)
    /\ pool.body > 0
    /\ rz \in LogoResolutions
    /\ ReachesBody(rz.resp)
    /\ pool' = PoolAfterBody(pool, rz)
    /\ UNCHANGED <<pc, exit, idx, header, rows_all, results, docGets, csv, unique, tasks,
                   inflight, outcome, logoGets, received, files, served, web, run, queued,
                   datasets>>

\* a downloader that returns once every task was pulled, not awaiting the buffer
PoolReturnEarly ==
    /\ pc = "download"
    /\ pool.tasks = 0
    /\ pc' = "done"
    /\ exit' = "ok"
    /\ UNCHANGED <<idx, header, rows_all, results, docGets, csv, unique, tasks, inflight,
                   outcome, logoGets, received, files, served, web, run, queued, pool,
                   datasets>>

\* the stream ends: collect completes, download_logos returns Ok(()), main prints Done
PoolReturn ==
    /\ pc = "download"
    /\ pool.tasks = 0
    /\ InProgress(pool) = 0
    /\ pc' = "done"
    /\ exit' = "ok"
    /\ UNCHANGED <<idx, header, rows_all, results, docGets, csv, unique, tasks, inflight,
                   outcome, logoGets, received, files, served, web, run, queued, pool,
                   datasets>>

NextDL ==
    \/ PoolPull
    \/ PoolSend
    \/ \E rz \in LogoResolutions : PoolResolve(rz)
    \/ \E rz \in LogoResolutions : PoolBody(rz)
    \/ PoolReturn

SpecDL == InitDL /\ [][NextDL]_vars

\* The executor polls the stream until it ends, and every request sent returns.
FairSpecDL ==
    /\ SpecDL
    /\ WF_vars(PoolPull)
    /\ WF_vars(PoolSend)
    /\ WF_vars(\E rz \in LogoResolutions : PoolResolve(rz))
    /\ WF_vars(\E rz \in LogoResolutions : PoolBody(rz))
    /\ WF_vars(PoolReturn)

\* the numbers of the tasks of the whole-run specification, where the tasks are
\* followed by code
PoolOf ==
    [codes |-> Cardinality(unique),
     tasks |-> Len(tasks),
     queued |-> Len(queued),
     sent |-> Cardinality(inflight \ DOMAIN received),
     body |-> Cardinality(inflight \cap DOMAIN received),
     ok |-> Cardinality({ c \in DOMAIN outcome : outcome[c].kind = "ok" }),
     skip |-> Cardinality({ c \in DOMAIN outcome : outcome[c].kind = "skip" }),
     err |-> Cardinality({ c \in DOMAIN outcome : outcome[c].kind = "err" })]

\* Every step of download_logos followed by code is, in numbers, a step of
\* download_logos followed by number: a property of Spec, which ties the two
\* descriptions of the downloader together
PoolFollowsTasks ==
    [][pc = "download" =>
          \/ /\ PoolOf' = PoolOf
             /\ pc' = "done" => PoolOf.tasks = 0 /\ InProgress(PoolOf) = 0
          \/ /\ PoolOf.tasks > 0
             /\ PoolHasCapacity(PoolOf)
             /\ PoolOf' = PoolAfterPull(PoolOf)
          \/ /\ PoolPolls(PoolOf)
             /\ PoolOf.queued > 0
             /\ PoolOf' = PoolAfterSend(PoolOf)
          \/ /\ PoolPolls(PoolOf)
             /\ PoolOf.sent > 0
             /\ \E rz \in LogoResolutions : PoolOf' = PoolAfterResolve(PoolOf, rz)
          \/ /\ PoolPolls(PoolOf)
             /\ PoolOf.body > 0
             /\ \E rz \in LogoResolutions :
                   ReachesBody(rz.resp) /\ PoolOf' = PoolAfterBody(PoolOf, rz)]_vars

----------------------------------------------------------------------------
(* The code collector alone: download_logos on enumerated dataset files *)

ValChars == {"a", "B", "1", "!", "sp", "sharp_s"}

\* every text of at most n characters of ValChars
Texts(n) == UNION { [1..k -> ValChars] : k \in 0..n }

SampleValues ==
    { <<"a", "a">>, <<"A", "A", "A">>, <<"A", "1">>, <<"a", "!">>,
      <<"sp", "sp", "b", "b", "sp", "sp">>, <<"B", "B">>, <<"e_acute">>, <<>> }

\* sequences of at most n elements of S
SeqsUpTo(S, n) == UNION { [1..k -> S] : k \in 0..n }

\* header shapes: marker first, marker second (lower case, padded), no marker
CCHeaders ==
    { <<IATA>>, << <<"X">>, <<"sp", "i", "a", "t", "a">> >>, << <<"X">>, <<"B", "I", "T">> >> }

\* the record holding v in the marker column of header h
RecordOf(h, v) == IF Len(h) = 1 THEN <<v>> ELSE << <<"x">>, v >>

\* a record shorter than the header (the reader is flexible)
ShortRecord == << <<"B", "1">> >>

InitCC ==
    \E h \in CCHeaders : \E v \in Texts(MaxValLen) :
    \E more \in SeqsUpTo(SampleValues, MaxRows - 1) :
        LET vals == <<v>> \o more
            rows == [i \in 1..Len(vals) |-> RecordOf(h, vals[i])]
                    \o (IF Len(h) = 1 THEN <<>> ELSE <<ShortRecord>>)
        IN
        /\ pc = "collect"
        /\ AfterScrape(h, rows)
        /\ csv = CsvFile(<<h>> \o rows)
        /\ unique = {}
        /\ tasks = <<>>
        /\ inflight = {}
        /\ outcome = <<>>
        /\ logoGets = <<>>
        /\ received = <<>>
        /\ files = OldFiles
        /\ served = <<>>
        /\ web = <<>>
        /\ run = 1
        /\ queued = <<>>
        /\ pool = EmptyPool
        /\ datasets = << csv >>

NextCC == Collect

SpecCC == InitCC /\ [][NextCC]_vars

----------------------------------------------------------------------------
(* The writer alone: write_csv_normalized on enumerated headers and rows *)

WCells == << <<"1">>, <<"2">> >>

\* a raw row of len cells, its cells alternating from WCells[style]
RawRow(len, style) == [i \in 1..len |-> WCells[((i + style) % 2) + 1]]

WRows == { RawRow(len, style) : len \in 1..MaxRowLen, style \in 1..2 }

WHeaders ==
    { <<IATA>>,
      << <<"X">>, <<"i", "a", "t", "a">> >>,
      << IATA, <<"B", "I", "T">>, <<"X">> >> }

InitW ==
    \E h \in WHeaders : \E rows \in SeqsUpTo(WRows, MaxRows) :
        /\ pc = "write"
        /\ AfterScrape(h, rows)
        /\ csv \in {NoFile, OldCsv}
        /\ unique = {}
        /\ tasks = <<>>
        /\ inflight = {}
        /\ outcome = <<>>
        /\ logoGets = <<>>
        /\ received = <<>>
        /\ files = OldFiles
        /\ served = <<>>
        /\ web = <<>>
        /\ run = 1
        /\ queued = <<>>
        /\ pool = EmptyPool
        /\ datasets = <<>>

NextW == \E disk \in CsvDisks : WriteCsv(disk)

SpecW == InitW /\ [][NextW]_vars

----------------------------------------------------------------------------
(* Claims *)

Resolved == DOMAIN outcome

\* the tasks whose request is out and has not been resolved
C1_Started == pool.sent + pool.body

\* C1: during download_logos the number of codes whose download was started
\* and is not yet resolved never exceeds 12, whatever the size of the code
\* set; nor does that number with the tasks pulled and about to send added.
C1_AtMost12InFlight ==
    /\ C1_Started <= 12
    /\ pool.queued + C1_Started <= 12

\* twelve requests are out, one of them waiting for its body, while a code of
\* a set of more than twelve still waits for a place
C1_Witness ==
    /\ pc = "download"
    /\ pool.codes > 12
    /\ C1_Started = 12
    /\ pool.body > 0
    /\ pool.tasks > 0

\* the tasks that have reported
C2_Resolved == pool.ok + pool.skip + pool.err

\* C2: given that every request sent returns, every code of the set eventually
\* resolves to exactly one of ok (Saved), skip (Skipped) and err (Failed): each
\* task is at one place at a time and reports once, in any order, a report is
\* never taken back, and download_logos returns only after every code has
\* resolved.
C2_AllResolve ==
    /\ <>(pc = "done" /\ C2_Resolved = pool.codes)
    /\ [](pool.tasks + pool.queued + pool.sent + pool.body + C2_Resolved = pool.codes)
    /\ [](pc = "done" => C2_Resolved = pool.codes /\ pool.tasks = 0 /\ InProgress(pool) = 0)
    /\ [][/\ pool'.codes = pool.codes
          /\ pool'.ok >= pool.ok
          /\ pool'.skip >= pool.skip
          /\ pool'.err >= pool.err
          /\ C2_Resolved' <= C2_Resolved + 1]_vars

\* download_logos has returned for more codes than the buffer holds, with the
\* three outcomes present
C2_Witness ==
    /\ pc = "done"
    /\ pool.codes > 12
    /\ C2_Resolved = pool.codes
    /\ pool.ok > 0
    /\ pool.skip > 0
    /\ pool.err > 0

\* C3: no per-code outcome aborts the batch: from the collection of the code set
\* on main never fails, whatever a task reports a step of the downloader stays
\* possible, and when download_logos returns it returns Ok with every code
\* attempted once and resolved.
C3_NoOutcomeAbortsBatch ==
    /\ pc \in {"download", "done"} => exit \in {"running", "ok"}
    /\ pc = "download" => ENABLED Next
    /\ Resolved # {} => pc \in {"download", "done"}
    /\ pc = "done" =>
          /\ exit = "ok"
          /\ Resolved = unique
          /\ \A c \in unique : logoGets[c] = 1

\* download_logos returned Ok although one code failed on a file-write error and
\* another on a transport error
C3_Witness ==
    /\ pc = "done"
    /\ exit = "ok"
    /\ \E a, b \in unique :
          /\ outcome[a] = OutcomeErr(<<"io">>)
          /\ outcome[b] = OutcomeErr(<<"send">>)

\* the classification of C4 for the statuses that are not 2xx
C4_NonSuccessRule(c) ==
    LET r == received[c].resp
        o == outcome[c]
    IN  /\ r.kind = "http" /\ r.status \in {404, 410} => o = OutcomeSkip
        /\ r.kind = "http" /\ r.status \notin {404, 410} /\ (r.status < 200 \/ r.status > 299)
             => o = OutcomeErr(<<"http", r.status>>)

\* the file <code>.png holds the body of the response unchanged
C4_Saved(c) ==
    /\ outcome[c] = OutcomeOk
    /\ PngName(c) \in DOMAIN files
    /\ files[PngName(c)] = received[c].resp.body

\* C4 as claimed: 404/410 is Skipped, any other non-2xx is Failed with the status
\* recorded, and every 2xx response is written unchanged to <code>.png and Saved.
C4_Original ==
    \A c \in Resolved :
        /\ C4_NonSuccessRule(c)
        /\ received[c].resp.kind = "http"
           /\ received[c].resp.status >= 200 /\ received[c].resp.status <= 299
             => C4_Saved(c)

\* C4 (amended): 404/410 is Skipped; any other non-2xx is Failed with the status
\* recorded; a 2xx response whose body is read and whose file write succeeds is
\* written unchanged to <code>.png and Saved; a 2xx response whose body cannot be
\* read or whose file write fails is Failed.
C4_Classification ==
    \A c \in Resolved :
        LET r == received[c].resp
            d == received[c].disk
            is2xx == r.kind = "http" /\ r.status >= 200 /\ r.status <= 299
        IN  /\ C4_NonSuccessRule(c)
            /\ is2xx /\ r.bodyOk /\ d.kind = "ok" => C4_Saved(c)
            /\ is2xx /\ (~r.bodyOk \/ d.kind # "ok") => outcome[c].kind = "err"

\* one code was saved from a 200 response and another skipped on 410
C4_Witness ==
    \E a, b \in Resolved :
        /\ received[a].resp.kind = "http" /\ received[a].resp.status = 200
        /\ C4_Saved(a) /\ received[a].resp.body = Png1
        /\ received[b].resp.kind = "http" /\ received[b].resp.status = 410
        /\ outcome[b] = OutcomeSkip

\* the documents fetched so far that yielded a qualifying table
Qualifying == { i \in 1..Len(results) : results[i].result.tag = "Some" }

FirstQualifying == CHOOSE i \in Qualifying : \A j \in Qualifying : i <= j

\* C5: the Unified Header is unset until a document yields a qualifying table,
\* from then on it is the header of the first such document in list order
\* whatever later documents yield, and it is the first record of the Dataset File.
C5_HeaderStability ==
    /\ IF Qualifying = {} THEN header = None
       ELSE header = Some(results[FirstQualifying].result.header)
    /\ pc \in {"collect", "download", "done"} =>
          /\ csv.exists
          /\ csv.records[1] = results[FirstQualifying].result.header

\* the file is written after a failed fetch, a 2-column table and then a
\* 3-column table with another header
C5_Witness ==
    /\ pc = "collect"
    /\ Len(results) >= 3
    /\ results[1].result.tag = "Err"
    /\ results[2].result.tag = "Some"
    /\ results[3].result.tag = "Some"
    /\ Len(results[2].result.header) = 2
    /\ Len(results[3].result.header) = 3
    /\ Len(csv.records[1]) = 2

WrittenStages == {"collect", "download", "done"}

\* C6: every data record of the Dataset File written by write_csv_normalized has
\* as many cells as its header record, whatever the lengths of the raw rows.
C6_RowWidth ==
    pc \in WrittenStages =>
        /\ csv.exists
        /\ Len(csv.records) = Len(rows_all) + 1
        /\ \A i \in 2..Len(csv.records) : Len(csv.records[i]) = Len(csv.records[1])

\* the file holds rows that were shorter, longer and as long as the header, some
\* from a later document whose table had another column count
C6_Witness ==
    /\ pc = "collect"
    /\ \E i, j, k \in 1..Len(rows_all) :
          /\ Len(rows_all[i]) < Len(header.value)
          /\ Len(rows_all[j]) > Len(header.value)
          /\ Len(rows_all[k]) = Len(header.value)
    /\ \E i, j \in Qualifying :
          i < j /\ Len(results[i].result.header) # Len(results[j].result.header)

\* C7: the record written for the raw row r under a header of h cells holds r's
\* cells in order up to min(len(r), h) and empty strings from len(r) to h.
C7_NormalizationContent ==
    pc = "collect" =>
        \A k \in 1..Len(rows_all) :
            LET r == rows_all[k]
                w == csv.records[k + 1]
                h == Len(header.value)
            IN  /\ Len(w) = h
                /\ \A i \in 1..h : w[i] = IF i <= Len(r) THEN r[i] ELSE <<>>

\* a row of 5 cells was cut to its first 3 and a row of 1 cell padded to 3
C7_Witness ==
    /\ pc = "collect"
    /\ Len(header.value) = 3
    /\ \E j, k \in 1..Len(rows_all) :
          /\ Len(rows_all[j]) = 5
          /\ csv.records[j + 1] = SubSeq(rows_all[j], 1, 3)
          /\ Len(rows_all[k]) = 1
          /\ csv.records[k + 1] = <<rows_all[k][1], <<>>, <<>>>>

\* the first column of the header whose trimmed text equals IATA without case
C8_Marker ==
    LET h == csv.records[1] IN
    CHOOSE m \in 1..Len(h) :
        /\ EqIgnoreAsciiCase(Trim(h[m]), IATA)
        /\ \A j \in 1..(m - 1) : ~EqIgnoreAsciiCase(Trim(h[j]), IATA)

\* the marker-column values of the data records
C8_Values ==
    { csv.records[i][C8_Marker] :
        i \in { j \in 2..Len(csv.records) : Len(csv.records[j]) >= C8_Marker } }

\* exactly 2 characters, each ASCII alphanumeric
C8_TwoAlnum(code) ==
    /\ Len(code) = 2
    /\ \A i \in 1..2 : IsAsciiAlphanumeric(code[i])

\* C8: the code set is exactly the set of upper(trim(v)) over the marker-column
\* values v whose trimmed upper-cased form is 2 ASCII-alphanumeric characters;
\* other values are skipped without error, and every member is 2 characters,
\* ASCII-alphanumeric and upper-cased.
C8_CodeValidityFilter ==
    pc = "download" =>
        /\ unique = { ToUppercase(Trim(v)) :
                        v \in { u \in C8_Values : C8_TwoAlnum(ToUppercase(Trim(u))) } }
        /\ \A c \in unique : C8_TwoAlnum(c) /\ ToUppercase(c) = c
        /\ exit = "running"

\* two different values collapsed to one code while a record too short for the
\* marker column was skipped
C8_Witness ==
    /\ pc = "download"
    /\ Cardinality(unique) = 1
    /\ \E u, v \in C8_Values :
          u # v /\ ToUppercase(Trim(u)) \in unique /\ ToUppercase(Trim(v)) \in unique
    /\ \E j \in 2..Len(csv.records) : Len(csv.records[j]) < C8_Marker

\* the documents whose fetch succeeded (a 2xx status) with a qualifying table
C9_Contributing ==
    { i \in 1..Len(results) :
        /\ results[i].status >= 200 /\ results[i].status <= 299
        /\ results[i].result.tag = "Some" }

RECURSIVE C9_RowsOf(_)
C9_RowsOf(n) ==
    IF n = 0 THEN <<>>
    ELSE C9_RowsOf(n - 1) \o (IF n \in C9_Contributing THEN results[n].result.rows ELSE <<>>)

\* C9: a document whose fetch fails (transport error or non-success status) or
\* that has no qualifying table contributes no rows and no header, is no error of
\* the run, and every document of the list is still fetched.
C9_FailureIsolation ==
    /\ rows_all = C9_RowsOf(Len(results))
    /\ header # None =>
          \E i \in C9_Contributing : header = Some(results[i].result.header)
    /\ pc \in {"scrape", "fetching"} => exit = "running"
    /\ Len(results) = idx - 1
    /\ \A i \in 1..NumDocs : docGets[i] = IF i < idx \/ (i = idx /\ pc = "fetching") THEN 1 ELSE 0
    /\ (pc \notin {"start", "scrape", "fetching"} /\ exit \notin MainStarts) =>
          Len(results) = NumDocs

\* C10: while no document has yielded a qualifying table the Dataset File is not
\* created or overwritten, no logo request is sent, no later stage is entered,
\* and once the last document is done the run ends in failure.
C10_FatalNoHeader ==
    [][(\A i \in 1..Len(results') : results'[i].result.tag # "Some") =>
          /\ csv' = csv
          /\ logoGets' = <<>>
          /\ files' = files
          /\ pc' \in {"scrape", "fetching", "failed"}
          /\ (pc = "scrape" /\ idx > NumDocs =>
                pc' = "failed" /\ exit' = "no pages yielded an IATA table")
          /\ (pc' = "failed" => exit' # "ok" /\ exit' # "running")]_vars

\* the run failed after a fetch error and a page without a qualifying table,
\* with the file of an earlier run untouched
C10_Witness ==
    /\ pc = "failed"
    /\ exit = "no pages yielded an IATA table"
    /\ csv = OldCsv
    /\ logoGets = <<>>
    /\ \E i, j \in 1..Len(results) :
          results[i].result.tag = "Err" /\ results[j].result.tag = "None"

\* a row cut or padded with empty cells to w cells
C11_Norm(r, w) == [i \in 1..w |-> IF i <= Len(r) THEN r[i] ELSE <<>>]

\* the normalized rows of the first n documents, document after document
RECURSIVE C11_RowsUpTo(_, _)
C11_RowsUpTo(n, w) ==
    IF n = 0 THEN <<>>
    ELSE C11_RowsUpTo(n - 1, w) \o
         (IF results[n].result.tag = "Some"
          THEN [k \in 1..Len(results[n].result.rows) |-> C11_Norm(results[n].result.rows[k], w)]
          ELSE <<>>)

\* C11: the documents are processed in the order "0-9", "A", "B", ...; the data
\* rows of the written file are the normalized rows of the documents that
\* yielded a table, document after document, each document's rows in table
\* order, none dropped, duplicated or reordered
C11_DatasetOrder ==
    /\ Suffixes[1] = "0%E2%80%939"
    /\ SubSeq(Suffixes, 2, 4) = <<"A", "B", "C">>
    /\ Suffixes[Len(Suffixes)] = "Z"
    /\ Len(Suffixes) = 27
    /\ \A i \in 1..Len(results) : results[i].suffix = Suffixes[i]
    /\ pc \in WrittenStages =>
          /\ Len(results) = NumDocs
          /\ Tail(csv.records) = C11_RowsUpTo(NumDocs, Len(csv.records[1]))

\* a file written from two documents with different tables and one without
C11_Witness ==
    /\ pc = "collect"
    /\ results[1].result.tag = "Some"
    /\ results[2].result.tag # "Some"
    /\ results[3].result.tag = "Some"
    /\ results[1].result.rows # results[3].result.rows
    /\ Len(csv.records) = 1 + Len(results[1].result.rows) + Len(results[3].result.rows)

\* the number of document requests sent for the first n documents
RECURSIVE C12_Sent(_)
C12_Sent(n) == IF n = 0 THEN 0 ELSE C12_Sent(n - 1) + docGets[n]

\* the number of document fetches that have started and not completed
C12_InProgress == C12_Sent(NumDocs) - Len(results)

\* C12: at most one document fetch-and-extract is in progress at any time, and
\* the fetch of a document starts only after the fetch-and-extract of every
\* document before it has completed with a table, an empty result or an error
C12_SequentialFetch ==
    /\ C12_InProgress \in {0, 1}
    /\ C12_InProgress = 1 <=> pc = "fetching"
    /\ \A i \in 1..NumDocs :
          docGets[i] > 0 =>
             /\ Len(results) >= i - 1
             /\ \A j \in 1..(i - 1) : results[j].result.tag \in {"Some", "None", "Err"}

\* the second document is being fetched after the first ended in an error
C12_Witness ==
    /\ pc = "fetching"
    /\ idx = 2
    /\ docGets[2] = 1
    /\ docGets[3] = 0
    /\ results[1].result.tag = "Err"

\* C13: a logo request is issued only once every document was processed, the
\* dataset file was completely written and the code set was completely built
\* from it; once the first download has begun the code set and the file are no
\* longer modified
C13_StageOrdering ==
    /\ [](logoGets # <<>> =>
             /\ pc \in {"download", "done"}
             /\ Len(results) = NumDocs
             /\ csv.exists
             /\ Len(csv.records) = 1 + Len(rows_all)
             /\ unique = CollectCodes(csv.records, IataIndex(csv.records[1]))
             /\ DOMAIN logoGets \subseteq unique)
    /\ [][(logoGets' # logoGets \/ logoGets # <<>>) => unique' = unique /\ csv' = csv]_vars

\* a request is out while the task of a further code of the set waits in the buffer
C13_Witness ==
    /\ pc = "download"
    /\ inflight # {}
    /\ queued # <<>>
    /\ Cardinality(unique) >= 2

\* the data records of the file that hold a valid code in the marker column
C14_ValidRecords ==
    LET iata_index == IataIndex(csv.records[1]) IN
    { j \in 2..Len(csv.records) :
        /\ iata_index <= Len(csv.records[j])
        /\ IsValidCode(CodeOf(csv.records[j][iata_index])) }

\* C14: no two downloads of a batch, in flight or completed, target the same
\* destination file: every code is requested once, distinct codes have distinct
\* <CODE>.png names, and no waiting task repeats a code
C14_DisjointFiles ==
    /\ \A a, b \in DOMAIN logoGets :
          PngName(a) = PngName(b) => (a = b /\ logoGets[a] = 1)
    /\ \A i, j \in 1..Len(tasks) :
          PngName(tasks[i]) = PngName(tasks[j]) => i = j
    /\ \A i \in 1..Len(tasks) : tasks[i] \notin DOMAIN logoGets
    /\ \A i, j \in 1..Len(queued) :
          PngName(queued[i]) = PngName(queued[j]) => i = j
    /\ \A i \in 1..Len(queued) :
          /\ queued[i] \notin DOMAIN logoGets
          /\ \A j \in 1..Len(tasks) : tasks[j] # queued[i]
    /\ inflight \cup DOMAIN outcome = DOMAIN logoGets
    /\ inflight \cap DOMAIN outcome = {}

\* two downloads are in flight for a dataset in which a code occurs more than once
C14_Witness ==
    /\ pc = "download"
    /\ Cardinality(inflight) >= 2
    /\ Cardinality(C14_ValidRecords) > Cardinality(unique)

\* C15: in a run every document is requested at most once and every code of the
\* set at most once, exactly once each when the run completes; a request that
\* failed or met a non-success status is not sent again
C15_SingleAttempt ==
    /\ \A i \in 1..NumDocs : docGets[i] <= 1
    /\ \A i \in 1..Len(results) : docGets[i] = 1
    /\ \A c \in DOMAIN logoGets : logoGets[c] = 1 /\ c \in unique
    /\ \A c \in DOMAIN outcome :
          /\ c \notin inflight
          /\ \A i \in 1..Len(tasks) : tasks[i] # c
          /\ \A i \in 1..Len(queued) : queued[i] # c
    /\ pc = "done" => DOMAIN logoGets = unique

\* a completed run in which a document fetch and a logo request failed
C15_Witness ==
    /\ pc = "done"
    /\ \E i \in 1..NumDocs : results[i].result.tag = "Err" /\ docGets[i] = 1
    /\ \E c \in unique : outcome[c].kind = "err" /\ logoGets[c] = 1
    /\ \E c \in unique : received[c].resp.kind = "http" /\ received[c].resp.status = 500

\* the dataset files the runs so far have written in full are one and the same
C16_SameDatasets ==
    \A i, j \in DOMAIN datasets :
        /\ datasets[i].exists
        /\ Len(datasets[i].records) = Len(datasets[j].records)
        /\ \A k \in 1..Len(datasets[i].records) :
              datasets[i].records[k] = datasets[j].records[k]

\* C16: two runs of the extraction phase over the same documents and fetch
\* results leave the same dataset file (same header, same rows, same order),
\* whatever the earlier run left on disk: no file, a file of other documents, its
\* own complete file, or a file cut short by a failed write
C16_IdempotentWrite ==
    /\ Len(datasets) <= run
    /\ C16_SameDatasets
    /\ pc \in {"collect", "download", "done"} =>
          /\ datasets # <<>>
          /\ csv = datasets[Len(datasets)]

\* the third run has completed after writing its file from a failed and two
\* qualifying documents; one earlier run wrote its file in full, the other ended
\* without doing so
C16_Witness ==
    /\ run = 3
    /\ pc = "done"
    /\ Len(datasets) = 2
    /\ Len(csv.records) > 3
    /\ \E i, j, k \in 1..NumDocs :
          /\ results[i].result.tag = "Err"
          /\ results[j].result.tag = "Some"
          /\ results[k].result.tag = "Some"
          /\ j # k

\* the table has a first row with a cell that, trimmed, equals "IATA" whatever the case
C17_Qualifies(table) ==
    /\ table.class = "wikitable"
    /\ table.rows # <<>>
    /\ \E c \in 1..Len(table.rows[1]) :
          /\ table.rows[1][c].tag \in {"th", "td"}
          /\ IsIataCell(extract_text(table.rows[1][c]))

\* the rows after the first that have td cells, as the texts of those cells
C17_Data(table) ==
    LET kept == SelectSeq(Tail(table.rows), LAMBDA tr : \E c \in 1..Len(tr) : tr[c].tag = "td")
    IN  [k \in 1..Len(kept) |-> CellsTd(kept[k])]

\* C17: for a document with any sequence of tables, fetch_iata_table returns the
\* header and data rows of the first wikitable in document order whose first
\* row has an "IATA" cell (trimmed, any case): earlier tables without one or
\* without rows are skipped, later qualifying tables are ignored, rows without
\* data cells are omitted, and with no qualifying table the result is "no
\* qualifying table", not an error
C17_TableSelection ==
    (pc = "scrape" /\ Len(results) = 1 /\ 1 \in DOMAIN web) =>
       \A resp \in web[1] :
          LET doc == resp.body
              Q == { k \in 1..Len(doc) : C17_Qualifies(doc[k]) }
              r == results[1].result
          IN  IF Q = {} THEN r = ResNone
              ELSE LET first == CHOOSE k \in Q : \A j \in Q : k <= j IN
                   /\ r.tag = "Some"
                   /\ r.header = CellsThTd(doc[first].rows[1])
                   /\ r.rows = C17_Data(doc[first])
                   /\ \A i \in 1..Len(r.rows) : r.rows[i] # <<>>

\* a wikitable without the marker was skipped, the second table was returned
\* without its row of th cells only, and the qualifying third table was ignored
C17_Witness ==
    /\ pc = "scrape"
    /\ Len(results) = 1
    /\ 1 \in DOMAIN web
    /\ \E resp \in web[1] :
          /\ Len(resp.body) = 3
          /\ resp.body[1].class = "wikitable"
          /\ ~C17_Qualifies(resp.body[1])
          /\ C17_Qualifies(resp.body[2])
          /\ C17_Qualifies(resp.body[3])
          /\ resp.body[2] # resp.body[3]
          /\ results[1].result.tag = "Some"
          /\ Len(results[1].result.rows) = 3
          /\ Len(resp.body[2].rows) = 5

\* C18: the header kept by scrape_all always has a cell that trimmed and
\* compared without case equals "IATA", the first record of the file written
\* from it has one too, so the code collector finds the marker column and the
\* run never ends with "IATA column not found"
C18_MarkerAlwaysFound ==
    /\ exit # "IATA column not found"
    /\ header # None =>
          \E i \in 1..Len(header.value) :
             EqIgnoreAsciiCase(Trim(header.value[i]), <<"I", "A", "T", "A">>)
    /\ pc \in WrittenStages =>
          /\ csv.records[1] = header.value
          /\ IataIndex(csv.records[1]) \in 1..Len(csv.records[1])

\* the collector found the marker in the second column, written in lower case
C18_Witness ==
    /\ pc = "download"
    /\ IataIndex(csv.records[1]) = 2
    /\ csv.records[1][2] = <<"i", "a", "t", "a">>
    /\ unique # {}

\* the codes whose download resolves in this step
C19_Resolving == (DOMAIN outcome') \ (DOMAIN outcome)

\* the file names created or given other contents in this step
C19_Written ==
    { n \in DOMAIN files' : n \notin DOMAIN files \/ files'[n] # files[n] }

\* C19: a download that resolves as skipped, or as failed on a transport error
\* or a non-success status, leaves the destination directory as it was; a file
\* is created or overwritten only under the name <CODE>.png of a code of the
\* set whose response status was 2xx, and no file is ever removed
C19_DownloaderFrame ==
    [][/\ DOMAIN files \subseteq DOMAIN files'
       /\ C19_Resolving = {} => files' = files
       /\ \A c \in C19_Resolving :
             LET resp == received'[c].resp IN
             /\ (\/ outcome'[c].kind = "skip"
                 \/ resp.kind = "send_error"
                 \/ resp.kind = "http" /\ ~(resp.status \in 200..299)
                 \/ resp.kind = "http" /\ ~resp.bodyOk) => files' = files
             /\ \A n \in C19_Written :
                   /\ n = c \o <<".", "p", "n", "g">>
                   /\ c \in unique
                   /\ resp.kind = "http"
                   /\ resp.status \in 200..299]_vars

\* the logo of an earlier run is still there after the request of its code was
\* answered 410 and skipped, and the other code of the set was saved
C19_Witness ==
    /\ pc = "done"
    /\ \E a, b \in unique :
          /\ a = <<"A", "A">>
          /\ outcome[a] = OutcomeSkip
          /\ received[a].resp.status = 410
          /\ files[PngName(a)] = <<7>>
          /\ outcome[b] = OutcomeOk
          /\ files[PngName(b)] = Png1

====
